---- MODULE Spec2Model ----
(***************************************************************************)
(* BarGraphAnalyzer (backend/bar_graph_analyzer.py): the detection         *)
(* registry of AutoExtract, the operations that edit it, the calibration   *)
(* values and the measurement of the bar heights.                          *)
(*                                                                         *)
(* Python objects are modelled with identity: every detection dict lives   *)
(* in `heap` under a reference, and the category dictionaries and the      *)
(* flat `detections` list hold references, because the code stores the     *)
(* same dict object in both and mutates it in place.                       *)
(*                                                                         *)
(* A box id is the text "<pre>_<n>"; it is modelled as the record          *)
(* [pre, n], which determines the text and is determined by it (the text   *)
(* after the last '_' is the decimal numeral n).                           *)
(***************************************************************************)
EXTENDS Integers, Sequences, FiniteSets, TLC

VARIABLES
    heap,                       \* reference -> detection dict
    buckets,                    \* category -> ordered dict (sequence of key/reference pairs)
    detections,                 \* self.detections: the flat list of references
    detections_is_none,         \* self.detections is None (before the first ingestion)
    image,                      \* self.image: "None" or "loaded"
    origin_value,               \* self.origin_value
    ymax_value,                 \* self.ymax_value
    origin_conversion_error,    \* self.origin_conversion_error: <<>> is None, <<text>> a message about text
    ymax_conversion_error,      \* self.ymax_conversion_error
    x_label_texts,              \* self.x_label_texts
    label_text,                 \* self.label_text
    last,                       \* the last call: its name, its result and, when it succeeded, its arguments
    nops,                       \* number of edit calls since the last ingestion
    pc,                         \* position of the request thread that is inside detect_box ("idle": none is)
    locals,                     \* request thread -> its position in add_new_box and its local variables
    ingested                    \* a call of detect_box has returned

registry == <<heap, buckets, detections, detections_is_none>>
calibration == <<origin_value, ymax_value, origin_conversion_error, ymax_conversion_error>>
texts == <<x_label_texts, label_text>>
vars == <<heap, buckets, detections, detections_is_none, image, origin_value, ymax_value,
          origin_conversion_error, ymax_conversion_error, x_label_texts, label_text, last, nops, pc, locals, ingested>>

(***************************************************************************)
(* Bounds of the model.                                                    *)
(***************************************************************************)
MaxOps == 2         \* edit calls explored after an ingestion
MaxReuseOps == 4    \* edit calls explored after an ingestion by the id-reuse specification
MaxRank == 2        \* largest numeral n of the box ids "<pre>_<n>" offered to the edit calls
MaxDet == 3         \* longest detection list of the exhaustive ingestion specification
MaxX == 2           \* largest x1 of an ingested detection
MaxMeasureOps == 3  \* calls explored after an ingestion by the measurement specification
MaxSnapshotOps == 3   \* calls explored after an ingestion by the specification that reads all boxes
MaxRecomputeOps == 3  \* requests explored after an ingestion by the specification of repeated measurements
MaxThreads == 2       \* request threads inside add_new_box at the same time
MaxScaleOps == 3      \* calls explored after an ingestion by the specification that edits the y axis
MaxConcurrentOps == 2 \* requests explored after the start of an ingestion by the concurrent specification

(***************************************************************************)
(* Categories, in the order of _category_dicts.                            *)
(***************************************************************************)
Categories ==
    <<"bar", "uptail", "yaxis", "xaxis", "origin", "ymax", "label", "x_group", "legend", "legend_group">>

CategorySet == {Categories[i] : i \in 1..Len(Categories)}

\* The categories _organize_detections sorts by x1 before numbering.
SortedCategories == {"bar", "uptail", "x_group"}

(***************************************************************************)
(* Values.                                                                 *)
(***************************************************************************)
MkId(pre, n) == [pre |-> pre, n |-> n]
NoId == MkId("", 0)

Box(x1, y1, x2, y2) == [x1 |-> x1, y1 |-> y1, x2 |-> x2, y2 |-> y2]
NoBox == Box(0, 0, 0, 0)

\* A raw detection as detect_box builds it (conf and class are never read by
\* any operation and are left out).
Detection(x1, y1, x2, y2, label) ==
    [x1 |-> x1, y1 |-> y1, x2 |-> x2, y2 |-> y2, label |-> label]

\* A detection dict on the heap. oidx is the optional 'original_index' key:
\* {} when the dict has no such key, {i} when it holds i.
Obj(d, id, oidx) ==
    [x1 |-> d.x1, y1 |-> d.y1, x2 |-> d.x2, y2 |-> d.y2, label |-> d.label, id |-> id, oidx |-> oidx]

BoxOf(o) == Box(o.x1, o.y1, o.x2, o.y2)

Range(s) == {s[i] : i \in 1..Len(s)}

(***************************************************************************)
(* Ordered dictionaries (Python dict: insertion order, assignment to an    *)
(* existing key keeps its position).                                       *)
(***************************************************************************)
Keys(d) == {d[i].key : i \in 1..Len(d)}
HasKey(d, k) == k \in Keys(d)
IndexOf(d, k) == CHOOSE i \in 1..Len(d) : d[i].key = k
Get(d, k) == d[IndexOf(d, k)].ref
Put(d, k, r) ==
    IF HasKey(d, k) THEN [d EXCEPT ![IndexOf(d, k)].ref = r]
    ELSE Append(d, [key |-> k, ref |-> r])
Del(d, k) == SelectSeq(d, LAMBDA e : e.key # k)
Values(d) == [i \in 1..Len(d) |-> d[i].ref]

EmptyBuckets == [c \in CategorySet |-> <<>>]

(***************************************************************************)
(* Calibration values and texts. A value is a text ("str") or a number     *)
(* ("num", s being its decimal numeral). float() is modelled by the set of *)
(* texts it accepts among the texts of the model.                          *)
(***************************************************************************)
Str(s) == [t |-> "str", s |-> s]
Num(s) == [t |-> "num", s |-> s]

FloatTexts == {"0", "10", "100"}
IsFloatText(s) == s \in FloatTexts

\* ocr_number returns the first token matching \d+\.\d+|\d+, or "".
OcrNumbers == {"", "10"}
\* ocr_text returns any stripped text.
OcrTexts == {"", "T"}

(***************************************************************************)
(* Lookups.                                                                *)
(***************************************************************************)
NoRef == 0

\* Index in _category_dicts of the first dictionary holding box_id, 0 if none.
FindCategory(box_id) ==
    LET holding == {i \in 1..Len(Categories) : HasKey(buckets[Categories[i]], box_id)}
    IN  IF holding = {} THEN 0
        ELSE CHOOSE i \in holding : \A j \in holding : i <= j

get_box_by_id(box_id) ==
    IF FindCategory(box_id) = 0 THEN NoRef
    ELSE Get(buckets[Categories[FindCategory(box_id)]], box_id)

\* get_all_boxes: the plural names zipped with _category_dicts.
CategoryNames ==
    <<"bars", "uptails", "yaxis", "xaxis", "origins", "ymaxes", "labels", "x_groups", "legends", "legend_groups">>

get_all_boxes == [i \in 1..Len(Categories) |-> [name |-> CategoryNames[i], dict |-> buckets[Categories[i]]]]

\* References held by any dictionary or by the detections list of a state.
Referenced(bk, dets) ==
    Range(dets) \cup UNION {{bk[c][i].ref : i \in 1..Len(bk[c])} : c \in CategorySet}

\* Dicts no longer referenced are freed.
Collect(h, bk, dets) == [r \in (DOMAIN h) \cap Referenced(bk, dets) |-> h[r]]

\* A fresh reference.
Alloc(h) == CHOOSE r \in 1..(Cardinality(DOMAIN h) + 1) : r \notin DOMAIN h

(***************************************************************************)
(* _organize_detections                                                    *)
(***************************************************************************)
\* Faulty variant: the list is left in input order.
InsertUnsorted(s, r, raw) == Append(s, r)

\* sorted(..., key=x1): stable, ascending.
InsertByX1(s, r, raw) ==
    LET k == Cardinality({i \in 1..Len(s) : raw[s[i]].x1 <= raw[r].x1})
        \* s is sorted, so the elements with x1 <= raw[r].x1 are its first k
    IN  SubSeq(s, 1, k) \o <<r>> \o SubSeq(s, k + 1, Len(s))

RECURSIVE SortedByX1(_, _)
SortedByX1(s, raw) ==
    IF s = <<>> THEN <<>>
    ELSE InsertByX1(SortedByX1(SubSeq(s, 1, Len(s) - 1), raw), s[Len(s)], raw)

\* detection_lists[c]: the indices of the raw detections labelled c, in input order.
DetectionList(raw, c) == SelectSeq([i \in 1..Len(raw) |-> i], LAMBDA i : raw[i].label = c)

\* The order in which category c is numbered.
Numbered(raw, c) ==
    IF c \in SortedCategories THEN SortedByX1(DetectionList(raw, c), raw)
    ELSE DetectionList(raw, c)

OrganizedBuckets(raw) ==
    [c \in CategorySet |->
        [i \in 1..Len(Numbered(raw, c)) |-> [key |-> MkId(c, i), ref |-> Numbered(raw, c)[i]]]]

\* Raw detection i becomes the dict at reference i; one with a recognised label
\* gets 'original_index' and the 'id' of its rank.
OrganizedHeap(raw) ==
    [r \in 1..Len(raw) |->
        IF raw[r].label \in CategorySet
        THEN Obj(raw[r],
                 MkId(raw[r].label,
                      CHOOSE i \in 1..Len(Numbered(raw, raw[r].label)) :
                          Numbered(raw, raw[r].label)[i] = r),
                 {r - 1})
        ELSE Obj(raw[r], NoId, {})]

(***************************************************************************)
(* detect_box: raw are the detections of the model on the image; the other *)
(* arguments are what OCR returns for the origin, ymax, x_group and label  *)
(* regions.                                                                *)
(***************************************************************************)
detect_box(raw, ocr_origin, ocr_ymax, ocr_x_groups, ocr_label) ==
    LET bk == OrganizedBuckets(raw)
        origin_text == IF bk["origin"] # <<>> THEN ocr_origin ELSE ""
        ymax_text == IF bk["ymax"] # <<>> THEN ocr_ymax ELSE ""
    IN  /\ image' = "loaded"
        /\ detections' = [i \in 1..Len(raw) |-> i]
        /\ detections_is_none' = FALSE
        /\ heap' = OrganizedHeap(raw)
        /\ buckets' = bk
        /\ origin_value' = Str(origin_text)
        /\ ymax_value' = Str(ymax_text)
        /\ origin_conversion_error' =
                IF origin_text # "" /\ ~IsFloatText(origin_text) THEN <<origin_text>> ELSE <<>>
        /\ ymax_conversion_error' =
                IF ymax_text # "" /\ ~IsFloatText(ymax_text) THEN <<ymax_text>> ELSE <<>>
        /\ x_label_texts' = [i \in 1..Len(bk["x_group"]) |-> ocr_x_groups[i]]
        /\ label_text' = IF bk["label"] # <<>> THEN ocr_label ELSE label_text
        /\ last' = [op |-> "detect_box", result |-> "None", id |-> NoId, cat |-> "", box |-> NoBox]
        /\ nops' = 0
        /\ ingested' = TRUE
        /\ UNCHANGED <<pc, locals>>

(***************************************************************************)
(* The edit operations. Each records in `last` its name and result; a      *)
(* successful call also records its arguments.                             *)
(***************************************************************************)
Failed(op, result) == [op |-> op, result |-> result, id |-> NoId, cat |-> "", box |-> NoBox]

Unchanged == UNCHANGED <<heap, buckets, detections, detections_is_none, image, origin_value, ymax_value,
                         origin_conversion_error, ymax_conversion_error, x_label_texts, label_text>>

Counted == nops' = nops + 1

\* Faulty variant: the validation admits x1 = x2 and y1 = y2.
update_box_coordinates_admits_equal(box_id, x1, y1, x2, y2) ==
    /\ Counted
    /\ UNCHANGED <<pc, locals, ingested>>
    /\ IF x1 > x2 \/ y1 > y2
       THEN /\ last' = Failed("update_box_coordinates", "ValueError")
            /\ Unchanged
       ELSE IF get_box_by_id(box_id) = NoRef
       THEN /\ last' = Failed("update_box_coordinates", "False")
            /\ Unchanged
       ELSE /\ heap' = [heap EXCEPT ![get_box_by_id(box_id)] =
                            [@ EXCEPT !.x1 = x1, !.y1 = y1, !.x2 = x2, !.y2 = y2]]
            /\ last' = [op |-> "update_box_coordinates", result |-> "True", id |-> box_id,
                        cat |-> "", box |-> Box(x1, y1, x2, y2)]
            /\ UNCHANGED <<buckets, detections, detections_is_none, image, calibration, texts>>

\* Faulty variant: the dictionary of the box is put in left-to-right order
\* again after the update, its keys staying in rank order.
update_box_coordinates_resorts(box_id, x1, y1, x2, y2) ==
    /\ Counted
    /\ UNCHANGED <<pc, locals, ingested>>
    /\ IF x1 >= x2 \/ y1 >= y2
       THEN /\ last' = Failed("update_box_coordinates", "ValueError")
            /\ Unchanged
       ELSE IF get_box_by_id(box_id) = NoRef
       THEN /\ last' = Failed("update_box_coordinates", "False")
            /\ Unchanged
       ELSE LET h == [heap EXCEPT ![get_box_by_id(box_id)] =
                            [@ EXCEPT !.x1 = x1, !.y1 = y1, !.x2 = x2, !.y2 = y2]]
                c == Categories[FindCategory(box_id)]
            IN  /\ heap' = h
                /\ buckets' = [buckets EXCEPT ![c] =
                        [i \in 1..Len(@) |-> [key |-> @[i].key, ref |-> SortedByX1(Values(@), h)[i]]]]
                /\ last' = [op |-> "update_box_coordinates", result |-> "True", id |-> box_id,
                            cat |-> "", box |-> Box(x1, y1, x2, y2)]
                /\ UNCHANGED <<detections, detections_is_none, image, calibration, texts>>

update_box_coordinates(box_id, x1, y1, x2, y2) ==
    /\ Counted
    /\ UNCHANGED <<pc, locals, ingested>>
    /\ IF x1 >= x2 \/ y1 >= y2
       THEN /\ last' = Failed("update_box_coordinates", "ValueError")
            /\ Unchanged
       ELSE IF get_box_by_id(box_id) = NoRef
       THEN /\ last' = Failed("update_box_coordinates", "False")
            /\ Unchanged
       ELSE /\ heap' = [heap EXCEPT ![get_box_by_id(box_id)] =
                            [@ EXCEPT !.x1 = x1, !.y1 = y1, !.x2 = x2, !.y2 = y2]]
            /\ last' = [op |-> "update_box_coordinates", result |-> "True", id |-> box_id,
                        cat |-> "", box |-> Box(x1, y1, x2, y2)]
            /\ UNCHANGED <<buckets, detections, detections_is_none, image, calibration, texts>>

\* The dict change_box_category works on: the one stored under box_id, else the
\* first detection whose original_index is the numeral of box_id minus one.
\* NoRef when there is none. (Iterating self.detections when it is None raises,
\* and the method returns False.)
LookupForChange(box_id) ==
    IF get_box_by_id(box_id) # NoRef THEN get_box_by_id(box_id)
    ELSE IF detections_is_none THEN NoRef
    ELSE IF \E i \in 1..Len(detections) : (box_id.n - 1) \in heap[detections[i]].oidx
    THEN detections[CHOOSE i \in 1..Len(detections) :
                        /\ (box_id.n - 1) \in heap[detections[i]].oidx
                        /\ \A j \in 1..(i - 1) : (box_id.n - 1) \notin heap[detections[j]].oidx]
    ELSE NoRef

\* old_category of change_box_category.
OldCategory(box_id) ==
    IF FindCategory(box_id) # 0 THEN Categories[FindCategory(box_id)]
    ELSE heap[LookupForChange(box_id)].label

RemovedFromOld(box_id, old_category) ==
    IF old_category \in CategorySet
    THEN [buckets EXCEPT ![old_category] = Del(@, box_id)]
    ELSE buckets

AddedToNew(bk, box_id, new_category, ref) ==
    IF new_category \in CategorySet
    THEN [bk EXCEPT ![new_category] = Put(@, box_id, ref)]
    ELSE bk

change_box_category(box_id, new_category) ==
    /\ Counted
    /\ UNCHANGED <<pc, locals, ingested>>
    /\ IF LookupForChange(box_id) = NoRef
       THEN /\ last' = Failed("change_box_category", "False")
            /\ Unchanged
       ELSE IF OldCategory(box_id) \in CategorySet /\ ~HasKey(buckets[OldCategory(box_id)], box_id)
       THEN \* del raises KeyError, caught: return False
            /\ last' = Failed("change_box_category", "False")
            /\ Unchanged
       ELSE LET ref == LookupForChange(box_id)
                bk == AddedToNew(RemovedFromOld(box_id, OldCategory(box_id)), box_id, new_category, ref)
            IN  /\ buckets' = bk
                /\ heap' = Collect([heap EXCEPT ![ref].label = new_category], bk, detections)
                /\ last' = [op |-> "change_box_category", result |-> "True", id |-> box_id,
                            cat |-> new_category, box |-> NoBox]
                /\ UNCHANGED <<detections, detections_is_none, image, calibration, texts>>

RequiredFields == {"x1", "y1", "x2", "y2", "label"}

\* box_data is a dict: a function from the field names it holds.
\* Faulty variant: the id is numbered with the size of the dictionary.
add_new_box_numbers_from_size(box_data) ==
    /\ Counted
    /\ UNCHANGED <<pc, locals, ingested>>
    /\ IF ~(RequiredFields \subseteq DOMAIN box_data)
       THEN /\ last' = Failed("add_new_box", "None")
            /\ Unchanged
       ELSE IF box_data["label"] \notin CategorySet
       THEN /\ last' = Failed("add_new_box", "None")
            /\ Unchanged
       ELSE LET label == box_data["label"]
                new_id == MkId(label, Len(buckets[label]))
                ref == Alloc(heap)
                bk == [buckets EXCEPT ![label] = Put(@, new_id, ref)]
                dets == Append(IF detections_is_none THEN <<>> ELSE detections, ref)
            IN  /\ buckets' = bk
                /\ detections' = dets
                /\ detections_is_none' = FALSE
                /\ heap' = Collect([r \in (DOMAIN heap) \cup {ref} |->
                                        IF r = ref THEN Obj(box_data, new_id, {}) ELSE heap[r]],
                                   bk, dets)
                /\ last' = [op |-> "add_new_box", result |-> "id", id |-> new_id,
                            cat |-> label, box |-> BoxOf(box_data)]
                /\ UNCHANGED <<image, calibration, texts>>

add_new_box(box_data) ==
    /\ Counted
    /\ UNCHANGED <<pc, locals, ingested>>
    /\ IF ~(RequiredFields \subseteq DOMAIN box_data)
       THEN /\ last' = Failed("add_new_box", "None")
            /\ Unchanged
       ELSE IF box_data["label"] \notin CategorySet
       THEN /\ last' = Failed("add_new_box", "None")
            /\ Unchanged
       ELSE LET label == box_data["label"]
                new_id == MkId(label, Len(buckets[label]) + 1)
                ref == Alloc(heap)
                bk == [buckets EXCEPT ![label] = Put(@, new_id, ref)]
                dets == Append(IF detections_is_none THEN <<>> ELSE detections, ref)
            IN  /\ buckets' = bk
                /\ detections' = dets
                /\ detections_is_none' = FALSE
                /\ heap' = Collect([r \in (DOMAIN heap) \cup {ref} |->
                                        IF r = ref THEN Obj(box_data, new_id, {}) ELSE heap[r]],
                                   bk, dets)
                /\ last' = [op |-> "add_new_box", result |-> "id", id |-> new_id,
                            cat |-> label, box |-> BoxOf(box_data)]
                /\ UNCHANGED <<image, calibration, texts>>

remove_box(box_id) ==
    /\ Counted
    /\ UNCHANGED <<pc, locals, ingested>>
    /\ IF get_box_by_id(box_id) = NoRef
       THEN /\ last' = Failed("remove_box", "False")
            /\ Unchanged
       ELSE LET bk == [buckets EXCEPT ![Categories[FindCategory(box_id)]] = Del(@, box_id)]
                dets == SelectSeq(detections, LAMBDA r : heap[r].id # box_id)
            IN  /\ buckets' = bk
                /\ detections' = dets
                /\ heap' = Collect(heap, bk, dets)
                /\ last' = [op |-> "remove_box", result |-> "True", id |-> box_id,
                            cat |-> "", box |-> NoBox]
                /\ UNCHANGED <<detections_is_none, image, calibration, texts>>

\* Faulty variant: the names are stored before the length is checked.
update_bar_names_stores_first(bar_names) ==
    /\ Counted
    /\ UNCHANGED <<pc, locals, ingested>>
    /\ x_label_texts' = bar_names
    /\ last' = IF Len(bar_names) # Len(buckets["bar"])
               THEN Failed("update_bar_names", "False")
               ELSE [op |-> "update_bar_names", result |-> "True", id |-> NoId, cat |-> "", box |-> NoBox]
    /\ UNCHANGED <<registry, image, calibration, label_text>>

\* Faulty variant: a list shorter than the bars is accepted.
update_bar_names_accepts_shorter(bar_names) ==
    /\ Counted
    /\ UNCHANGED <<pc, locals, ingested>>
    /\ IF Len(bar_names) > Len(buckets["bar"])
       THEN /\ last' = Failed("update_bar_names", "False")
            /\ Unchanged
       ELSE /\ x_label_texts' = bar_names
            /\ last' = [op |-> "update_bar_names", result |-> "True", id |-> NoId,
                        cat |-> "", box |-> NoBox]
            /\ UNCHANGED <<registry, image, calibration, label_text>>

update_bar_names(bar_names) ==
    /\ Counted
    /\ UNCHANGED <<pc, locals, ingested>>
    /\ IF Len(bar_names) # Len(buckets["bar"])
       THEN /\ last' = Failed("update_bar_names", "False")
            /\ Unchanged
       ELSE /\ x_label_texts' = bar_names
            /\ last' = [op |-> "update_bar_names", result |-> "True", id |-> NoId,
                        cat |-> "", box |-> NoBox]
            /\ UNCHANGED <<registry, image, calibration, label_text>>

(***************************************************************************)
(* float() and the truth value of a calibration value.                     *)
(***************************************************************************)
\* The number a float text of the model denotes.
FloatValue == [s \in FloatTexts |-> CASE s = "0" -> 0 [] s = "10" -> 10 [] s = "100" -> 100]

\* float(v) returns: of a number always, of a text when it is a float text.
CanFloat(v) == v.t = "num" \/ IsFloatText(v.s)
Float(v) == FloatValue[v.s]

\* bool(v): a number is true unless it is 0, a text unless it is empty.
Truthy(v) == IF v.t = "num" THEN FloatValue[v.s] # 0 ELSE v.s # ""

(***************************************************************************)
(* get_component_status                                                    *)
(***************************************************************************)
\* required_components, in the order of the dict: name and category dict.
RequiredComponents ==
    << [name |-> "yaxis", cat |-> "yaxis"], [name |-> "xaxis", cat |-> "xaxis"],
       [name |-> "bars", cat |-> "bar"], [name |-> "ymax", cat |-> "ymax"],
       [name |-> "origin", cat |-> "origin"] >>

ComponentNames == {RequiredComponents[i].name : i \in 1..Len(RequiredComponents)}

ComponentCategory(name) ==
    RequiredComponents[CHOOSE i \in 1..Len(RequiredComponents) : RequiredComponents[i].name = name].cat

CountOf(n) == [t |-> "count", n |-> n]
ManualInput == [t |-> "manual_input", n |-> 0]

\* missing_components after the loop over required_components.
MissingDetected ==
    SelectSeq([i \in 1..Len(RequiredComponents) |-> RequiredComponents[i].name],
              LAMBDA name : buckets[ComponentCategory(name)] = <<>>)

\* The special handling of ymax and origin, for the component `name` with the
\* calibration value v, given the missing list so far:
\*   "skip"    the condition of the `if` is false (evaluated left to right),
\*   "raise"   v is a true number: v.strip() raises AttributeError,
\*   "manual"  float(v) returns: the component is present by manual input,
\*   "keep"    float(v) raises ValueError, which is caught.
ManualHandling(name, v, missing) ==
    IF name \notin Range(missing) THEN "skip"
    ELSE IF ~Truthy(v) THEN "skip"
    ELSE IF v.t = "num" THEN "raise"
    ELSE IF CanFloat(v) THEN "manual"
    ELSE "keep"

Removed(missing, name) == SelectSeq(missing, LAMBDA m : m # name)

\* The return value of get_component_status; raised is "" when it returns.
get_component_status ==
    LET ymax_handling == ManualHandling("ymax", ymax_value, MissingDetected)
        missing1 == IF ymax_handling = "manual" THEN Removed(MissingDetected, "ymax") ELSE MissingDetected
        origin_handling == ManualHandling("origin", origin_value, missing1)
        missing2 == IF origin_handling = "manual" THEN Removed(missing1, "origin") ELSE missing1
        manual == {n \in {"ymax", "origin"} :
                        \/ n = "ymax" /\ ymax_handling = "manual"
                        \/ n = "origin" /\ origin_handling = "manual"}
        detected == ComponentNames \ Range(MissingDetected)
    IN  IF ymax_handling = "raise" \/ origin_handling = "raise"
        THEN [raised |-> "AttributeError", present_components |-> <<>>,
              missing_components |-> <<>>, all_components_ready |-> FALSE]
        ELSE [raised |-> "",
              present_components |->
                    [n \in detected \cup manual |->
                        IF n \in manual THEN ManualInput
                        ELSE CountOf(Len(buckets[ComponentCategory(n)]))],
              missing_components |-> missing2,
              all_components_ready |-> Len(missing2) = 0]

(***************************************************************************)
(* Arithmetic of calculate_heights. The floats of the code are modelled by *)
(* exact fractions in lowest terms with a positive denominator; rounding   *)
(* is not modelled.                                                        *)
(***************************************************************************)
RECURSIVE Gcd(_, _)
Gcd(a, b) == IF b = 0 THEN a ELSE Gcd(b, a % b)

Abs(a) == IF a < 0 THEN -a ELSE a

\* n / d, for d # 0.
Frac(n, d) ==
    LET g == Gcd(Abs(n), Abs(d))
        s == IF d < 0 THEN -1 ELSE 1
    IN  [n |-> (s * n) \div g, d |-> (s * d) \div g]

\* k * q and q + k, for an integer k.
Times(k, q) == Frac(k * q.n, q.d)
Plus(q, k) == Frac(q.n + k * q.d, q.d)

(***************************************************************************)
(* calculate_heights                                                       *)
(***************************************************************************)
\* yaxis_obj: the first value of self.yaxis (which is not empty).
yaxis_obj == heap[buckets["yaxis"][1].ref]
yaxis_height == yaxis_obj.y1 - yaxis_obj.y2

scale_factor(origin, ymax) == Frac(ymax - origin, yaxis_height)

\* Faulty variant: the origin offset is left out.
bar_height_without_origin(ref, origin, ymax) ==
    Times(heap[ref].y1 - heap[ref].y2, scale_factor(origin, ymax))

bar_height(ref, origin, ymax) ==
    Plus(Times(heap[ref].y1 - heap[ref].y2, scale_factor(origin, ymax)), origin)

\* Faulty variant: the origin offset is added.
uptail_height_with_origin(ref, origin, ymax) ==
    Plus(Times(heap[ref].y1 - heap[ref].y2, scale_factor(origin, ymax)), origin)

uptail_height(ref, origin, ymax) ==
    Times(heap[ref].y1 - heap[ref].y2, scale_factor(origin, ymax))

\* Faulty variant: the heights are listed from the last bar to the first.
bar_heights_reversed(origin, ymax) ==
    [i \in 1..Len(buckets["bar"]) |->
        bar_height(buckets["bar"][Len(buckets["bar"]) + 1 - i].ref, origin, ymax)]

bar_heights(origin, ymax) ==
    [i \in 1..Len(buckets["bar"]) |-> bar_height(buckets["bar"][i].ref, origin, ymax)]

uptail_heights(origin, ymax) ==
    [i \in 1..Len(buckets["uptail"]) |-> uptail_height(buckets["uptail"][i].ref, origin, ymax)]

\* f"Bar {i+1}" for i in range(num_bars).
DefaultBarNames == <<"Bar 1", "Bar 2", "Bar 3", "Bar 4", "Bar 5", "Bar 6">>
GeneratedNames(num_bars) == SubSeq(DefaultBarNames, 1, num_bars)

\* Faulty variant: the stored names are used whenever there are any.
UsesStoredNamesOfAnyLength(num_bars) == x_label_texts # <<>>

\* Faulty variant: the stored names are used only when there are more of them
\* than bars.
UsesStoredNamesWhenLonger(num_bars) == x_label_texts # <<>> /\ Len(x_label_texts) > num_bars

\* The stored names are used when the list is not empty and long enough.
UsesStoredNames(num_bars) == x_label_texts # <<>> /\ Len(x_label_texts) >= num_bars

\* s[:n]
Take(s, n) == SubSeq(s, 1, IF n < Len(s) THEN n ELSE Len(s))

bar_names_for(num_bars) ==
    IF UsesStoredNames(num_bars) THEN Take(x_label_texts, num_bars) ELSE GeneratedNames(num_bars)

Raise(exception) ==
    [raised |-> exception, results |-> <<>>, x_label_texts |-> x_label_texts]

\* The outcome of calculate_heights: the exception raised ("" when it returns),
\* the dict returned (its one key and the value under it) and self.x_label_texts
\* after the call.
calculate_heights ==
    IF ~CanFloat(origin_value) \/ ~CanFloat(ymax_value) THEN Raise("ValueError")
    ELSE IF buckets["yaxis"] = <<>> THEN Raise("ValueError")
    ELSE IF yaxis_height = 0 THEN Raise("ZeroDivisionError")
    ELSE LET num_bars == Len(buckets["bar"])
         IN  [raised |-> "",
              results |-> [key |-> label_text,
                           bar_heights |-> bar_heights(Float(origin_value), Float(ymax_value)),
                           uptail_heights |-> uptail_heights(Float(origin_value), Float(ymax_value)),
                           bar_names |-> bar_names_for(num_bars)],
              x_label_texts |-> IF UsesStoredNames(num_bars) THEN x_label_texts
                                ELSE GeneratedNames(num_bars)]

(***************************************************************************)
(* The handlers of routes.py that set the calibration values and trigger   *)
(* the measurement, and a call of get_component_status. Each records in    *)
(* `last` its name and result and, under `value`, what it returned.        *)
(***************************************************************************)
Answer(op, result, value) ==
    [op |-> op, result |-> result, id |-> NoId, cat |-> "", box |-> NoBox, value |-> value]

\* str(e) of the ValueError calculate_heights raises, in its parts: float()
\* (lines 388-389, origin_value first) quotes the text it rejects and names
\* nothing else; line 393 has a fixed text.
ValueErrorMessage ==
    IF ~CanFloat(origin_value) THEN <<"could not convert string to float: ", origin_value.s>>
    ELSE IF ~CanFloat(ymax_value) THEN <<"could not convert string to float: ", ymax_value.s>>
    ELSE <<"yaxis not set">>

\* Faulty variant: a value read from a detected origin or ymax is kept.
handle_update_values_keeps_detected(data) ==
    /\ Counted
    /\ UNCHANGED <<pc, locals, ingested>>
    /\ IF DOMAIN data = {}
       THEN /\ last' = Answer("handle_update_values", "400", <<>>)
            /\ Unchanged
       ELSE IF ~({"origin_value", "ymax_value"} \subseteq DOMAIN data)
       THEN /\ last' = Answer("handle_update_values", "400", <<>>)
            /\ Unchanged
       ELSE /\ origin_value' = IF buckets["origin"] = <<>> THEN data["origin_value"] ELSE origin_value
            /\ ymax_value' = IF buckets["ymax"] = <<>> THEN data["ymax_value"] ELSE ymax_value
            /\ last' = Answer("handle_update_values", "200", data)
            /\ UNCHANGED <<registry, image, origin_conversion_error, ymax_conversion_error, texts>>

\* data is the JSON body: a function from the keys it holds.
handle_update_values(data) ==
    /\ Counted
    /\ UNCHANGED <<pc, locals, ingested>>
    /\ IF DOMAIN data = {}
       THEN /\ last' = Answer("handle_update_values", "400", <<>>)
            /\ Unchanged
       ELSE IF ~({"origin_value", "ymax_value"} \subseteq DOMAIN data)
       THEN /\ last' = Answer("handle_update_values", "400", <<>>)
            /\ Unchanged
       ELSE /\ origin_value' = data["origin_value"]
            /\ ymax_value' = data["ymax_value"]
            /\ last' = Answer("handle_update_values", "200", data)
            /\ UNCHANGED <<registry, image, origin_conversion_error, ymax_conversion_error, texts>>

\* Faulty variant: the converted numbers are written back to the analyzer.
handle_calculate_heights_keeps_floats ==
    /\ Counted
    /\ UNCHANGED <<pc, locals, ingested>>
    /\ IF image = "None" \/ detections_is_none \/ detections = <<>>
       THEN /\ last' = Answer("handle_calculate_heights", "400", <<>>)
            /\ Unchanged
       ELSE /\ x_label_texts' = calculate_heights.x_label_texts
            /\ last' = Answer("handle_calculate_heights",
                              CASE calculate_heights.raised = "" -> "200"
                                [] calculate_heights.raised = "ValueError" -> "400"
                                [] OTHER -> "500",
                              IF calculate_heights.raised = "ValueError"
                              THEN [error |-> <<"Calculation error: ">> \o ValueErrorMessage]
                              ELSE calculate_heights.results)
            /\ origin_value' = IF CanFloat(origin_value) THEN Num(origin_value.s) ELSE origin_value
            /\ ymax_value' = IF CanFloat(ymax_value) THEN Num(ymax_value.s) ELSE ymax_value
            /\ UNCHANGED <<registry, image, origin_conversion_error, ymax_conversion_error, label_text>>

handle_calculate_heights ==
    /\ Counted
    /\ UNCHANGED <<pc, locals, ingested>>
    /\ IF image = "None" \/ detections_is_none \/ detections = <<>>
       THEN /\ last' = Answer("handle_calculate_heights", "400", <<>>)
            /\ Unchanged
       ELSE /\ x_label_texts' = calculate_heights.x_label_texts
            /\ last' = Answer("handle_calculate_heights",
                              CASE calculate_heights.raised = "" -> "200"
                                [] calculate_heights.raised = "ValueError" -> "400"
                                [] OTHER -> "500",
                              IF calculate_heights.raised = "ValueError"
                              THEN [error |-> <<"Calculation error: ">> \o ValueErrorMessage]
                              ELSE calculate_heights.results)
            /\ UNCHANGED <<registry, image, calibration, label_text>>

call_get_component_status ==
    /\ Counted
    /\ UNCHANGED <<pc, locals, ingested>>
    /\ last' = Answer("get_component_status",
                      IF get_component_status.raised = "" THEN "returned" ELSE get_component_status.raised,
                      get_component_status)
    /\ Unchanged

(***************************************************************************)
(* A call of get_all_boxes. The returned map holds the dictionaries of the *)
(* analyzer themselves (line 348 copies none of them), and the edit        *)
(* operations change those dictionaries and their entities in place: what  *)
(* the caller reads in the map is, until the next detect_box, what the     *)
(* dictionaries hold at the time of the reading.                           *)
(***************************************************************************)
\* The contents read in a map of dictionaries.
Contents(boxes) ==
    [i \in 1..Len(boxes) |->
        [name |-> boxes[i].name,
         dict |-> [j \in 1..Len(boxes[i].dict) |->
                    [key |-> boxes[i].dict[j].key, value |-> heap[boxes[i].dict[j].ref]]]]]

\* The call; the caller reads the map at once.
call_get_all_boxes ==
    /\ Counted
    /\ UNCHANGED <<pc, locals, ingested>>
    /\ last' = Answer("get_all_boxes", "returned", Contents(get_all_boxes))
    /\ Unchanged

(***************************************************************************)
(* detect_box as the steps of a request thread. The server answers every   *)
(* request on a thread of its own and the analyzer is one global object    *)
(* without a lock, so another request can run between two steps (the       *)
(* interpreter switches threads between bytecodes, and each OCR call waits *)
(* for a tesseract process). The requests that run in between here change  *)
(* no dictionary, so the dictionaries read by the later steps are the      *)
(* values detect_box holds in its local variables.                         *)
(***************************************************************************)
\* Lines 83-112: the image is read, the detections are listed and organized.
detect_box_organize(raw) ==
    /\ pc = "idle"
    /\ pc' = "organized"
    /\ UNCHANGED <<locals, ingested>>
    /\ image' = "loaded"
    /\ detections' = [i \in 1..Len(raw) |-> i]
    /\ detections_is_none' = FALSE
    /\ heap' = OrganizedHeap(raw)
    /\ buckets' = OrganizedBuckets(raw)
    /\ nops' = 0
    /\ UNCHANGED <<calibration, texts, last>>

\* Lines 117-135: OCR of origin and ymax, the calibration values and errors.
detect_box_calibrate(ocr_origin, ocr_ymax) ==
    LET origin_text == IF buckets["origin"] # <<>> THEN ocr_origin ELSE ""
        ymax_text == IF buckets["ymax"] # <<>> THEN ocr_ymax ELSE ""
    IN  /\ pc = "organized"
        /\ pc' = "calibrated"
        /\ UNCHANGED <<locals, ingested>>
        /\ origin_value' = Str(origin_text)
        /\ ymax_value' = Str(ymax_text)
        /\ origin_conversion_error' =
                IF origin_text # "" /\ ~IsFloatText(origin_text) THEN <<origin_text>> ELSE <<>>
        /\ ymax_conversion_error' =
                IF ymax_text # "" /\ ~IsFloatText(ymax_text) THEN <<ymax_text>> ELSE <<>>
        /\ UNCHANGED <<registry, image, texts, last, nops>>

\* Lines 137-144: OCR of the x_groups and of the label; detect_box returns.
detect_box_texts(ocr_x_groups, ocr_label) ==
    /\ pc = "calibrated"
    /\ pc' = "idle"
    /\ ingested' = TRUE
    /\ UNCHANGED locals
    /\ x_label_texts' = [i \in 1..Len(buckets["x_group"]) |-> ocr_x_groups[i]]
    /\ label_text' = IF buckets["label"] # <<>> THEN ocr_label ELSE label_text
    /\ last' = [op |-> "detect_box", result |-> "None", id |-> NoId, cat |-> "", box |-> NoBox]
    /\ UNCHANGED <<registry, image, calibration, nops>>

(***************************************************************************)
(* handle_bar_analyzer when an OCR call of detect_box raises (pytesseract  *)
(* raises when tesseract fails or is missing): detect_box has run up to    *)
(* that call, the exception is caught by the handler, which answers 500.   *)
(* `at` is the entity whose OCR raises; for an x_group, the texts read     *)
(* before it are in `read`.                                                *)
(***************************************************************************)
OcrCalls == <<"origin", "ymax", "x_group", "label">>

handle_bar_analyzer_ocr_raises(raw, at, ocr_origin, ocr_ymax, read) ==
    LET bk == OrganizedBuckets(raw)
        origin_text == IF bk["origin"] # <<>> THEN ocr_origin ELSE ""
        ymax_text == IF bk["ymax"] # <<>> THEN ocr_ymax ELSE ""
    IN  /\ bk[at] # <<>>
        /\ image' = "loaded"
        /\ detections' = [i \in 1..Len(raw) |-> i]
        /\ detections_is_none' = FALSE
        /\ heap' = OrganizedHeap(raw)
        /\ buckets' = bk
        /\ IF at \in {"origin", "ymax"}
           THEN UNCHANGED <<calibration, texts>>
           ELSE /\ origin_value' = Str(origin_text)
                /\ ymax_value' = Str(ymax_text)
                /\ origin_conversion_error' =
                        IF origin_text # "" /\ ~IsFloatText(origin_text) THEN <<origin_text>> ELSE <<>>
                /\ ymax_conversion_error' =
                        IF ymax_text # "" /\ ~IsFloatText(ymax_text) THEN <<ymax_text>> ELSE <<>>
                /\ x_label_texts' = read
                /\ UNCHANGED label_text
        /\ last' = Answer("handle_bar_analyzer", "500", <<>>)
        /\ nops' = 0
        /\ UNCHANGED <<pc, locals, ingested>>

(***************************************************************************)
(* Inputs.                                                                 *)
(***************************************************************************)
\* Charts the edit operations are explored on.
ChartA == <<Detection(1, 0, 2, 2, "bar"), Detection(0, 0, 1, 2, "bar"), Detection(0, 0, 1, 1, "uptail")>>
ChartB == <<Detection(0, 0, 2, 1, "label"), Detection(1, 1, 2, 2, "bar")>>
SampleCharts == {ChartA, ChartB}

\* Every detection list of at most MaxDet detections over these labels and boxes.
IngestLabels == {"bar", "uptail", "x_group", "label"}
RawDetections == {Detection(x, 0, x + 1, 2, c) : x \in 0..MaxX, c \in IngestLabels}
AllCharts == UNION {[1..n -> RawDetections] : n \in 0..MaxDet}

IdPrefixes == {"bar", "uptail", "label", "box"}
BoxIds == {MkId(p, n) : p \in IdPrefixes, n \in 0..MaxRank}

\* Two valid boxes, one with x1 = x2 and one with y1 > y2.
EditBoxes == {Box(0, 0, 3, 3), Box(1, 1, 2, 3), Box(2, 0, 2, 1), Box(0, 2, 1, 1)}
AddBoxes == {Box(0, 0, 3, 3), Box(2, 0, 2, 1)}
NewCategories == {"bar", "uptail", "x_group", "bogus"}
AddLabels == {"bar", "uptail", "bogus"}

BoxData(b, label) == [f \in RequiredFields |-> IF f = "label" THEN label ELSE b[f]]
Without(d, field) == [f \in (DOMAIN d) \ {field} |-> d[f]]
AddInputs ==
    {BoxData(b, l) : b \in AddBoxes, l \in AddLabels}
        \cup {Without(BoxData(Box(0, 0, 3, 3), "bar"), f) : f \in RequiredFields}

NameLists == UNION {[1..n -> {"P"}] : n \in 0..(MaxRank + 1)}

(***************************************************************************)
(* The analyzer after __init__, and the calls made on it.                  *)
(***************************************************************************)
\* The request threads that add boxes at the same time, and the local
\* variables of a thread that is not inside add_new_box.
Threads == 1..MaxThreads
NotAdding == [at |-> "idle", new_box |-> NoBox, label |-> "", new_id |-> NoId, ref |-> NoRef]

Init ==
    /\ heap = <<>>
    /\ buckets = EmptyBuckets
    /\ detections = <<>>
    /\ detections_is_none = TRUE
    /\ image = "None"
    /\ origin_value = Num("0")
    /\ ymax_value = Num("0")
    /\ origin_conversion_error = <<>>
    /\ ymax_conversion_error = <<>>
    /\ x_label_texts = <<>>
    /\ label_text = ""
    /\ last = [op |-> "__init__", result |-> "None", id |-> NoId, cat |-> "", box |-> NoBox]
    /\ nops = 0
    /\ pc = "idle"
    /\ locals = [t \in Threads |-> NotAdding]
    /\ ingested = FALSE

\* What OCR can return for the first entity of category c: it is called only
\* when there is one.
OcrOf(raw, c, results) == IF DetectionList(raw, c) = <<>> THEN {""} ELSE results

Ingest(charts) ==
    \E raw \in charts :
        \E o \in OcrOf(raw, "origin", OcrNumbers), y \in OcrOf(raw, "ymax", OcrNumbers),
           l \in OcrOf(raw, "label", OcrTexts),
           xs \in [1..Len(DetectionList(raw, "x_group")) -> OcrTexts] :
            detect_box(raw, o, y, xs, l)

DetectBox == Ingest(SampleCharts)

UpdateBoxCoordinates ==
    /\ nops < MaxOps
    /\ \E box_id \in BoxIds, b \in EditBoxes : update_box_coordinates(box_id, b.x1, b.y1, b.x2, b.y2)

ChangeBoxCategory ==
    /\ nops < MaxOps
    /\ \E box_id \in BoxIds, new_category \in NewCategories : change_box_category(box_id, new_category)

AddNewBox == nops < MaxOps /\ \E box_data \in AddInputs : add_new_box(box_data)

RemoveBox == nops < MaxOps /\ \E box_id \in BoxIds : remove_box(box_id)

UpdateBarNames == nops < MaxOps /\ \E bar_names \in NameLists : update_bar_names(bar_names)

Next ==
    \/ DetectBox
    \/ UpdateBoxCoordinates
    \/ ChangeBoxCategory
    \/ AddNewBox
    \/ RemoveBox
    \/ UpdateBarNames

Spec == Init /\ [][Next]_vars

(***************************************************************************)
(* The first ingestion, over every detection list within the bounds.       *)
(***************************************************************************)
DetectBoxFirst == image = "None" /\ nops = 0 /\ Ingest(AllCharts)

NextIngest == DetectBoxFirst

SpecIngest == Init /\ [][NextIngest]_vars

(***************************************************************************)
(* Longer runs of recategorize, add and remove on one chart and few ids:   *)
(* the runs in which an id is given out again.                             *)
(***************************************************************************)
ReuseIds == {MkId("bar", 1), MkId("label", 1)}
ReuseCategories == {"bar", "label"}

DetectBoxReuse == Ingest({ChartB})

ChangeBoxCategoryReuse ==
    /\ nops < MaxReuseOps
    /\ \E box_id \in ReuseIds, new_category \in ReuseCategories : change_box_category(box_id, new_category)

AddNewBoxReuse ==
    /\ nops < MaxReuseOps
    /\ \E label \in ReuseCategories : add_new_box(BoxData(Box(0, 0, 3, 3), label))

RemoveBoxReuse == nops < MaxReuseOps /\ \E box_id \in ReuseIds : remove_box(box_id)

NextReuse ==
    \/ DetectBoxReuse
    \/ ChangeBoxCategoryReuse
    \/ AddNewBoxReuse
    \/ RemoveBoxReuse

SpecReuse == Init /\ [][NextReuse]_vars

(***************************************************************************)
(* Calibration and measurement: ingestion of charts with an axis, the      *)
(* override of the calibration values, the readiness query, the            *)
(* measurement, and the edits that change what is measured.                *)
(***************************************************************************)
\* A chart with every component: the y axis spans 200 px, the bars 100 and 50,
\* the uptail 20; there is one x_group for the two bars.
ChartFull ==
    << Detection(0, 0, 1, 200, "yaxis"), Detection(0, 200, 4, 201, "xaxis"),
       Detection(0, 201, 1, 210, "origin"), Detection(0, 0, 1, 10, "ymax"),
       Detection(2, 150, 3, 200, "bar"), Detection(1, 100, 2, 200, "bar"),
       Detection(1, 80, 2, 100, "uptail"), Detection(5, 0, 6, 200, "label"),
       Detection(1, 201, 2, 210, "x_group") >>

\* A chart with a y axis and a bar only.
ChartPartial == << Detection(0, 0, 1, 200, "yaxis"), Detection(1, 100, 2, 200, "bar") >>

MeasureCharts == {ChartFull, ChartPartial}

\* JSON values of the body of update_values: numbers and texts.
OriginOverrides == {Num("0"), Str("0"), Str("10"), Str("x")}
YmaxOverrides == {Num("100"), Str("100"), Str("x")}

Body(origin, ymax) ==
    [k \in {"origin_value", "ymax_value"} |-> IF k = "origin_value" THEN origin ELSE ymax]

UpdateBodies ==
    {Body(o, y) : o \in OriginOverrides, y \in YmaxOverrides}
        \cup {<<>>, Without(Body(Num("0"), Num("100")), "ymax_value")}

MeasureIds == {MkId("label", 1), MkId("bar", 1), MkId("yaxis", 1)}

DetectBoxMeasure == Ingest(MeasureCharts)

UpdateValues == nops < MaxMeasureOps /\ \E data \in UpdateBodies : handle_update_values(data)

CalculateHeights == nops < MaxMeasureOps /\ handle_calculate_heights

GetComponentStatus == nops < MaxMeasureOps /\ call_get_component_status

UpdateBarNamesMeasure == nops < MaxMeasureOps /\ \E names \in NameLists : update_bar_names(names)

RemoveBoxMeasure == nops < MaxMeasureOps /\ \E box_id \in MeasureIds : remove_box(box_id)

NextMeasure ==
    \/ DetectBoxMeasure
    \/ UpdateValues
    \/ CalculateHeights
    \/ GetComponentStatus
    \/ UpdateBarNamesMeasure
    \/ RemoveBoxMeasure

SpecMeasure == Init /\ [][NextMeasure]_vars

(***************************************************************************)
(* Requests that run while another request is inside detect_box.           *)
(***************************************************************************)
\* What OCR can return for the first entity of category c of the registry.
OcrFor(c, results) == IF buckets[c] = <<>> THEN {""} ELSE results

ConcurrentBodies == {Body(Str("0"), Str("100")), Body(Num("0"), Num("100"))}

IngestOrganize == \E raw \in MeasureCharts : detect_box_organize(raw)

IngestCalibrate ==
    \E o \in OcrFor("origin", OcrNumbers), y \in OcrFor("ymax", OcrNumbers) : detect_box_calibrate(o, y)

IngestTexts ==
    \E l \in OcrFor("label", OcrTexts), xs \in [1..Len(buckets["x_group"]) -> OcrTexts] :
        detect_box_texts(xs, l)

CalculateHeightsConcurrent == nops < MaxConcurrentOps /\ handle_calculate_heights

UpdateValuesConcurrent ==
    nops < MaxConcurrentOps /\ \E data \in ConcurrentBodies : handle_update_values(data)

NextConcurrent ==
    \/ IngestOrganize
    \/ IngestCalibrate
    \/ IngestTexts
    \/ CalculateHeightsConcurrent
    \/ UpdateValuesConcurrent

SpecConcurrent == Init /\ [][NextConcurrent]_vars

(***************************************************************************)
(* Ingestions during which an OCR call raises, among ingestions that       *)
(* succeed and measurements.                                               *)
(***************************************************************************)
DetectBoxOcrRaises ==
    \E raw \in MeasureCharts, i \in 1..Len(OcrCalls) :
        \E o \in OcrOf(raw, "origin", OcrNumbers), y \in OcrOf(raw, "ymax", OcrNumbers) :
            \E k \in 1..Len(DetectionList(raw, "x_group")) \cup {0} :
                \E read \in [1..k -> OcrTexts] :
                    /\ OcrCalls[i] = "x_group" => k < Len(DetectionList(raw, "x_group"))
                    /\ OcrCalls[i] = "label" => k = Len(DetectionList(raw, "x_group"))
                    /\ OcrCalls[i] \in {"origin", "ymax"} => k = 0
                    /\ handle_bar_analyzer_ocr_raises(raw, OcrCalls[i], o, y, read)

NextOcrError ==
    \/ DetectBoxMeasure
    \/ DetectBoxOcrRaises
    \/ CalculateHeights

SpecOcrError == Init /\ [][NextOcrError]_vars

(***************************************************************************)
(* Reading all boxes among the edit calls.                                 *)
(***************************************************************************)
GetAllBoxes == nops < MaxSnapshotOps /\ call_get_all_boxes

UpdateBoxCoordinatesSnapshot ==
    /\ nops < MaxSnapshotOps
    /\ \E box_id \in ReuseIds, b \in EditBoxes : update_box_coordinates(box_id, b.x1, b.y1, b.x2, b.y2)

ChangeBoxCategorySnapshot ==
    /\ nops < MaxSnapshotOps
    /\ \E box_id \in ReuseIds, new_category \in ReuseCategories : change_box_category(box_id, new_category)

AddNewBoxSnapshot ==
    /\ nops < MaxSnapshotOps
    /\ \E label \in ReuseCategories : add_new_box(BoxData(Box(0, 0, 3, 3), label))

RemoveBoxSnapshot == nops < MaxSnapshotOps /\ \E box_id \in ReuseIds : remove_box(box_id)

NextSnapshot ==
    \/ DetectBoxReuse
    \/ GetAllBoxes
    \/ UpdateBoxCoordinatesSnapshot
    \/ ChangeBoxCategorySnapshot
    \/ AddNewBoxSnapshot
    \/ RemoveBoxSnapshot

SpecSnapshot == Init /\ [][NextSnapshot]_vars

(***************************************************************************)
(* Measurements that follow one another, among ingestions and calibration  *)
(* requests that are accepted.                                             *)
(***************************************************************************)
UpdateValuesRecompute ==
    nops < MaxRecomputeOps /\ \E data \in ConcurrentBodies : handle_update_values(data)

CalculateHeightsRecompute == nops < MaxRecomputeOps /\ handle_calculate_heights

NextRecompute ==
    \/ DetectBoxMeasure
    \/ UpdateValuesRecompute
    \/ CalculateHeightsRecompute

SpecRecompute == Init /\ [][NextRecompute]_vars

(***************************************************************************)
(* add_new_box as the steps of a request thread t. Every request runs on a *)
(* thread of its own against the one analyzer, without a lock, and the     *)
(* interpreter can switch threads between the statement that computes the  *)
(* id and the one that assigns the box. A thread that has returned keeps   *)
(* the id it returned.                                                     *)
(***************************************************************************)
\* Lines 597-610: the required fields, the copy, the label and the id made of
\* the size of the dictionary.
add_new_box_number(t, box_data) ==
    /\ locals[t].at = "idle"
    /\ IF ~(RequiredFields \subseteq DOMAIN box_data)
       THEN /\ last' = Failed("add_new_box", "None")
            /\ UNCHANGED locals
       ELSE IF box_data["label"] \notin CategorySet
       THEN /\ last' = Failed("add_new_box", "None")
            /\ UNCHANGED locals
       ELSE /\ locals' = [locals EXCEPT ![t] =
                    [at |-> "numbered", new_box |-> BoxOf(box_data), label |-> box_data["label"],
                     new_id |-> MkId(box_data["label"], Len(buckets[box_data["label"]]) + 1),
                     ref |-> NoRef]]
            /\ UNCHANGED last
    /\ UNCHANGED <<registry, image, calibration, texts, nops, pc, ingested>>

\* Lines 611 and 644: the box is assigned under the id and gets its 'id'.
add_new_box_store(t) ==
    LET l == locals[t]
        ref == Alloc(heap)
    IN  /\ l.at = "numbered"
        /\ buckets' = [buckets EXCEPT ![l.label] = Put(@, l.new_id, ref)]
        /\ heap' = [r \in (DOMAIN heap) \cup {ref} |->
                        IF r = ref THEN Obj(BoxData(l.new_box, l.label), l.new_id, {}) ELSE heap[r]]
        /\ locals' = [locals EXCEPT ![t].at = "stored", ![t].ref = ref]
        /\ UNCHANGED <<detections, detections_is_none, image, calibration, texts, last, nops, pc, ingested>>

\* Lines 647-652: the box is appended to the detections and the id returned.
add_new_box_return(t) ==
    LET l == locals[t]
    IN  /\ l.at = "stored"
        /\ detections' = Append(IF detections_is_none THEN <<>> ELSE detections, l.ref)
        /\ detections_is_none' = FALSE
        /\ locals' = [locals EXCEPT ![t].at = "returned"]
        /\ last' = [op |-> "add_new_box", result |-> "id", id |-> l.new_id,
                    cat |-> l.label, box |-> l.new_box]
        /\ Counted
        /\ UNCHANGED <<heap, buckets, image, calibration, texts, pc, ingested>>

\* The requests explored: a box of label bar or uptail, or one without y2.
AddingInputs ==
    {BoxData(Box(0, 0, 3, 3), l) : l \in {"bar", "uptail"}}
        \cup {Without(BoxData(Box(0, 0, 3, 3), "bar"), "y2")}

\* An ingestion, before any of the threads starts.
DetectBoxAdding == (\A t \in Threads : locals[t].at = "idle") /\ Ingest(SampleCharts)

AddNewBoxNumber == \E t \in Threads, box_data \in AddingInputs : add_new_box_number(t, box_data)

AddNewBoxStore == \E t \in Threads : add_new_box_store(t)

AddNewBoxReturn == \E t \in Threads : add_new_box_return(t)

NextAdding ==
    \/ DetectBoxAdding
    \/ AddNewBoxNumber
    \/ AddNewBoxStore
    \/ AddNewBoxReturn

SpecAdding == Init /\ [][NextAdding]_vars

(***************************************************************************)
(* Measurements after the y axis has been removed and added again.         *)
(***************************************************************************)
\* A y axis of height 100 and one whose y1 and y2 are equal.
YaxisBoxes == {Box(0, 0, 1, 100), Box(0, 5, 1, 5)}

AddNewBoxScale ==
    nops < MaxScaleOps /\ \E b \in YaxisBoxes : add_new_box(BoxData(b, "yaxis"))

RemoveBoxScale == nops < MaxScaleOps /\ remove_box(MkId("yaxis", 1))

UpdateValuesScale ==
    nops < MaxScaleOps /\ \E data \in ConcurrentBodies : handle_update_values(data)

CalculateHeightsScale == nops < MaxScaleOps /\ handle_calculate_heights

NextScale ==
    \/ DetectBoxMeasure
    \/ AddNewBoxScale
    \/ RemoveBoxScale
    \/ UpdateValuesScale
    \/ CalculateHeightsScale

SpecScale == Init /\ [][NextScale]_vars

(***************************************************************************)
(* Vocabulary of the properties.                                           *)
(***************************************************************************)
\* The dicts stored in the dictionaries of the current state.
StoredIn(c) == {buckets[c][i].ref : i \in 1..Len(buckets[c])}
Stored == UNION {StoredIn(c) : c \in CategorySet}

\* Number of entries of all dictionaries.
TotalEntities == Cardinality(UNION {{<<c, i>> : i \in 1..Len(buckets[c])} : c \in CategorySet})

ValidBox(b) == b.x1 < b.x2 /\ b.y1 < b.y2

\* The step is a call of op that returned result.
Returned(op, result) == last'.op = op /\ last'.result = result

EditOps == {"update_box_coordinates", "change_box_category", "add_new_box", "remove_box", "update_bar_names"}
FailureResults == {"False", "None", "ValueError"}

(***************************************************************************)
(* C1: after any sequence of ingest, add_box, remove_box, recategorize and *)
(* update_box_coordinates no id is a key of two category dictionaries.     *)
(***************************************************************************)
C1_IdInOneBucket ==
    \A c1 \in CategorySet, c2 \in CategorySet :
        c1 # c2 => Keys(buckets[c1]) \cap Keys(buckets[c2]) = {}

(***************************************************************************)
(* C2: a successful add_box returns an id that was a key of no dictionary  *)
(* before the call, the number of stored entities grows by exactly one and *)
(* every entity stored before is still stored.                             *)
(***************************************************************************)
C2_AddReturnsFreshId ==
    [][Returned("add_new_box", "id") =>
            /\ FindCategory(last'.id) = 0
            /\ TotalEntities' = TotalEntities + 1
            /\ Stored \subseteq Stored']_vars

(***************************************************************************)
(* C3: a successful recategorize leaves the number of stored entities      *)
(* unchanged and replaces no entity of the destination dictionary.         *)
(***************************************************************************)
C3_RecategorizeNeverAliases ==
    [][Returned("change_box_category", "True") =>
            /\ TotalEntities' = TotalEntities
            /\ \A c \in CategorySet : last'.cat = c => StoredIn(c) \subseteq StoredIn(c)']_vars

(***************************************************************************)
(* C4: recategorize succeeds only for the id of a stored entity and one of *)
(* the ten categories (it returns False otherwise).                        *)
(***************************************************************************)
C4_RecategorizeRejects ==
    [][Returned("change_box_category", "True") =>
            /\ get_box_by_id(last'.id) # NoRef
            /\ last'.cat \in CategorySet]_vars

(***************************************************************************)
(* C5: an edit call that reports failure (False, None or a raised          *)
(* ValueError) leaves the dictionaries, the dicts in them, the detections  *)
(* list, the bar names and the calibration values as they were.            *)
(***************************************************************************)
C5_FailedEditChangesNothing ==
    [][(last'.op \in EditOps /\ last'.result \in FailureResults) =>
            UNCHANGED <<heap, buckets, detections, detections_is_none, x_label_texts, label_text,
                        origin_value, ymax_value, origin_conversion_error, ymax_conversion_error>>]_vars

\* A recategorize has failed on a registry that holds entities and bar names.
C5_Witness ==
    /\ last.op = "change_box_category"
    /\ last.result = "False"
    /\ Stored # {}
    /\ x_label_texts # <<>>

(***************************************************************************)
(* C6: after a successful recategorize of a stored entity to a category    *)
(* other than its own, the entity is gone from its old dictionary, is in   *)
(* the new category's dictionary under the same id, is labelled with the   *)
(* new category and has the coordinates it had.                            *)
(***************************************************************************)
Recategorized(ref, old_category) ==
    /\ last'.cat \in CategorySet
    /\ ref \notin StoredIn(old_category)'
    /\ \E c \in CategorySet :
            /\ c = last'.cat
            /\ HasKey(buckets'[c], last'.id)
            /\ Get(buckets'[c], last'.id) = ref
    /\ heap'[ref].label = last'.cat
    /\ BoxOf(heap'[ref]) = BoxOf(heap[ref])

C6_RecategorizeMoves ==
    [][\A c \in CategorySet :
            ( /\ Returned("change_box_category", "True")
              /\ get_box_by_id(last'.id) # NoRef
              /\ Categories[FindCategory(last'.id)] = c
              /\ last'.cat # c )
            => Recategorized(get_box_by_id(last'.id), c)]_vars

\* The same, for calls that name one of the ten categories.
C6_RecategorizeMovesWithinCategories ==
    [][\A c \in CategorySet :
            ( /\ Returned("change_box_category", "True")
              /\ get_box_by_id(last'.id) # NoRef
              /\ Categories[FindCategory(last'.id)] = c
              /\ last'.cat # c
              /\ last'.cat \in CategorySet )
            => Recategorized(get_box_by_id(last'.id), c)]_vars

(***************************************************************************)
(* C7: after a successful update_box_coordinates(id, ...) get_box(id) has  *)
(* exactly the coordinates of the call, which satisfy x1 < x2 and y1 < y2; *)
(* a rejected call changes no state. So after any sequence of calls the    *)
(* box is that of the last call with valid coordinates.                    *)
(***************************************************************************)
UpdatedBoxIsLastApplied ==
    (last.op = "update_box_coordinates" /\ last.result = "True") =>
        /\ ValidBox(last.box)
        /\ get_box_by_id(last.id) # NoRef
        /\ BoxOf(heap[get_box_by_id(last.id)]) = last.box

C7_LastValidUpdateWins ==
    [][/\ UpdatedBoxIsLastApplied'
       /\ (last'.op = "update_box_coordinates" /\ last'.result # "True") =>
                UNCHANGED <<heap, buckets, detections, detections_is_none>>
       /\ Returned("update_box_coordinates", "True") => get_box_by_id(last'.id) # NoRef]_vars

\* A second edit call in a row has moved a stored entity to new coordinates.
C7_Witness ==
    /\ last.op = "update_box_coordinates"
    /\ last.result = "True"
    /\ nops = 2
    /\ BoxOf(heap[get_box_by_id(last.id)]) = Box(1, 1, 2, 3)

(***************************************************************************)
(* C8: every stored entity satisfies x1 < x2 and y1 < y2 (ingested         *)
(* detections satisfy it; add_box and update_box_coordinates reject a box  *)
(* that does not).                                                         *)
(***************************************************************************)
C8_StoredBoxesValid == \A r \in Stored : ValidBox(heap[r])

(***************************************************************************)
(* C9: after add_box(data) returned new_id, get_box(new_id) is an entity   *)
(* with the coordinates and category of data; after a following           *)
(* successful remove_box(new_id), get_box(new_id) is not-found.            *)
(***************************************************************************)
AddedBoxFound ==
    (last.op = "add_new_box" /\ last.result = "id") =>
        /\ get_box_by_id(last.id) # NoRef
        /\ BoxOf(heap[get_box_by_id(last.id)]) = last.box
        /\ heap[get_box_by_id(last.id)].label = last.cat

RemovedBoxGone == (last.op = "remove_box" /\ last.result = "True") => get_box_by_id(last.id) = NoRef

C9_AddGetRemoveGet ==
    [][/\ AddedBoxFound'
       /\ ( /\ last.op = "add_new_box" /\ last.result = "id"
            /\ Returned("remove_box", "True")
            /\ last'.id = last.id ) => RemovedBoxGone']_vars

(***************************************************************************)
(* C10: ingestion numbers each category 1..N; bar, uptail and x_group in   *)
(* ascending x1 (so with pairwise distinct x1 the i-th id is the detection *)
(* with the i-th smallest x1, whatever the input order), the other         *)
(* categories in input order.                                              *)
(***************************************************************************)
\* The detections labelled c, in the order of the detections list.
InInputOrder(c) == SelectSeq(detections, LAMBDA r : heap[r].label = c)

DistinctX1(c) ==
    \A i \in 1..Len(InInputOrder(c)), j \in 1..Len(InInputOrder(c)) :
        i # j => heap[InInputOrder(c)[i]].x1 # heap[InInputOrder(c)[j]].x1

C10_IngestRanksByX1 ==
    last.op = "detect_box" =>
        \A c \in CategorySet :
            /\ Len(buckets[c]) = Len(InInputOrder(c))
            /\ StoredIn(c) = Range(InInputOrder(c))
            /\ \A i \in 1..Len(buckets[c]) :
                    /\ buckets[c][i].key = MkId(c, i)
                    /\ heap[buckets[c][i].ref].id = MkId(c, i)
            /\ IF c \in SortedCategories
               THEN DistinctX1(c) =>
                        \A i \in 1..Len(buckets[c]) :
                            Cardinality({r \in StoredIn(c) : heap[r].x1 < heap[buckets[c][i].ref].x1}) = i - 1
               ELSE Values(buckets[c]) = InInputOrder(c)

\* Three bars were ingested out of x1 order, and two labels.
C10_Witness ==
    /\ last.op = "detect_box"
    /\ Len(buckets["bar"]) = 3
    /\ DistinctX1("bar")
    /\ Values(buckets["bar"]) # InInputOrder("bar")
    /\ heap[detections[1]].x1 > heap[detections[3]].x1

(***************************************************************************)
(* C11: immediately after an ingestion the dictionaries hold exactly the   *)
(* dicts built from the new detections with a recognised label, numbered   *)
(* afresh, no dict of an earlier state is left, the bar names are those of *)
(* the new x_groups, and without a label entity the label text is empty.   *)
(***************************************************************************)
IngestedRegistryIsNew ==
    /\ DOMAIN heap = Range(detections)
    /\ Stored = {r \in Range(detections) : heap[r].label \in CategorySet}
    /\ \A c \in CategorySet : \A i \in 1..Len(buckets[c]) :
            /\ buckets[c][i].key = MkId(c, i)
            /\ heap[buckets[c][i].ref].label = c
    /\ Len(x_label_texts) = Len(buckets["x_group"])

C11_IngestResets ==
    last.op = "detect_box" =>
        /\ IngestedRegistryIsNew
        /\ buckets["label"] = <<>> => label_text = ""

\* The same without the label text.
C11_IngestResetsRegistry == last.op = "detect_box" => IngestedRegistryIsNew

(***************************************************************************)
(* C12: in every reachable state get_component_status returns, reports a   *)
(* required component as present exactly when its dictionary is not empty  *)
(* or, for ymax and origin, the calibration value parses as a number, and  *)
(* reports ready exactly when nothing is missing.                          *)
(***************************************************************************)
CalibrationValueOf(name) == IF name = "ymax" THEN ymax_value ELSE origin_value

ShouldBePresent(name) ==
    \/ buckets[ComponentCategory(name)] # <<>>
    \/ name \in {"ymax", "origin"} /\ CanFloat(CalibrationValueOf(name))

C12_StatusReportsPresence ==
    /\ get_component_status.raised = ""
    /\ \A name \in ComponentNames :
            /\ name \in DOMAIN get_component_status.present_components <=> ShouldBePresent(name)
            /\ name \in Range(get_component_status.missing_components) <=> ~ShouldBePresent(name)
    /\ get_component_status.all_components_ready <=> get_component_status.missing_components = <<>>

\* The first part alone: the call returns.
C12_StatusReturns == get_component_status.raised = ""

(***************************************************************************)
(* C13: without an origin entity, get_component_status reports not ready   *)
(* with origin missing while origin_value is a text that is not a number,  *)
(* and reports origin present by manual input, and not missing, once       *)
(* origin_value is the text "0".                                           *)
(***************************************************************************)
OriginFollowsManualValue ==
    /\ (buckets["origin"] = <<>> /\ origin_value.t = "str" /\ ~IsFloatText(origin_value.s)) =>
            /\ get_component_status.raised = ""
            /\ ~get_component_status.all_components_ready
            /\ "origin" \in Range(get_component_status.missing_components)
    /\ (buckets["origin"] = <<>> /\ origin_value = Str("0")) =>
            /\ get_component_status.raised = ""
            /\ "origin" \in DOMAIN get_component_status.present_components
            /\ get_component_status.present_components["origin"] = ManualInput
            /\ "origin" \notin Range(get_component_status.missing_components)

C13_OriginManualFlip == OriginFollowsManualValue

\* The same in the states where the handling of ymax does not raise.
C13_OriginManualFlipUnlessYmaxRaises ==
    ManualHandling("ymax", ymax_value, MissingDetected) # "raise" => OriginFollowsManualValue

(***************************************************************************)
(* C14: a measurement requested in a state where get_component_status      *)
(* reports a missing component is answered with an error, not a result.    *)
(***************************************************************************)
C14_NotReadyRejected ==
    [][( /\ last'.op = "handle_calculate_heights"
         /\ get_component_status.raised = ""
         /\ get_component_status.missing_components # <<>> )
       => last'.result # "200"]_vars

(***************************************************************************)
(* C15: every bar height returned by calculate_heights is                  *)
(*   (bar.y1 - bar.y2) * (ymax_value - origin_value) / (yaxis.y1 - yaxis.y2) *)
(*   + origin_value                                                        *)
(* for the first yaxis entity; a y axis of 200 px, origin 0, ymax 100 and  *)
(* a bar of 100 px give 50.                                                *)
(***************************************************************************)
\* The fraction h is span * (ymax - origin) / axis + origin.
IsOffsetHeight(h, span, axis, origin, ymax) ==
    h.n * axis = h.d * (span * (ymax - origin) + origin * axis)

Measured == Returned("handle_calculate_heights", "200")

C15_BarHeightFormula ==
    [][Measured =>
            /\ Len(last'.value.bar_heights) = Len(buckets["bar"])
            /\ \A i \in 1..Len(buckets["bar"]) :
                    IsOffsetHeight(last'.value.bar_heights[i],
                                   heap[buckets["bar"][i].ref].y1 - heap[buckets["bar"][i].ref].y2,
                                   heap[buckets["yaxis"][1].ref].y1 - heap[buckets["yaxis"][1].ref].y2,
                                   Float(origin_value), Float(ymax_value))]_vars

\* The example: axis of 200 px, origin 0, ymax 100, a bar of 100 px measured 50,
\* on a chart without origin and ymax entities.
C15_Witness ==
    /\ last.op = "handle_calculate_heights"
    /\ last.result = "200"
    /\ buckets["origin"] = <<>>
    /\ origin_value = Str("0")
    /\ ymax_value = Str("100")
    /\ heap[buckets["yaxis"][1].ref].y2 - heap[buckets["yaxis"][1].ref].y1 = 200
    /\ heap[buckets["bar"][1].ref].y2 - heap[buckets["bar"][1].ref].y1 = 100
    /\ last.value.bar_heights[1] = [n |-> 50, d |-> 1]

(***************************************************************************)
(* C16: for the boxes of any reachable state, replacing (origin, ymax) by  *)
(* (origin + c, ymax + c) leaves every uptail height as it is and raises   *)
(* every bar height by exactly c.                                          *)
(***************************************************************************)
CalibrationNumbers == {0, 10, 100}
Shifts == {-10, 1, 10}

C16_UptailsCarryNoOffset ==
    (buckets["yaxis"] # <<>> /\ yaxis_height # 0) =>
        \A origin \in CalibrationNumbers, ymax \in CalibrationNumbers, c \in Shifts :
            /\ uptail_heights(origin + c, ymax + c) = uptail_heights(origin, ymax)
            /\ \A i \in 1..Len(buckets["bar"]) :
                    LET shifted == bar_heights(origin + c, ymax + c)[i]
                        base == bar_heights(origin, ymax)[i]
                    IN  shifted.n * base.d = (base.n + c * base.d) * shifted.d

\* A measurement of a chart with bars and an uptail, at origin 10 and ymax 100,
\* returned the uptail height of origin 0 and ymax 90.
C16_Witness ==
    /\ last.op = "handle_calculate_heights"
    /\ last.result = "200"
    /\ buckets["bar"] # <<>>
    /\ buckets["uptail"] # <<>>
    /\ Float(origin_value) = 10
    /\ Float(ymax_value) = 100
    /\ last.value.uptail_heights = uptail_heights(0, 90)
    /\ last.value.uptail_heights[1] = [n |-> 9, d |-> 1]

(***************************************************************************)
(* C17: with n bars, calculate_heights returns the first n stored names    *)
(* and leaves the stored list alone when it has at least n entries;        *)
(* otherwise it returns "Bar 1".."Bar n" and stores exactly that list.     *)
(***************************************************************************)
C17_BarNames ==
    [][Measured =>
            LET n == Len(buckets["bar"])
            IN  IF Len(x_label_texts) >= n
                THEN /\ last'.value.bar_names = [i \in 1..n |-> x_label_texts[i]]
                     /\ x_label_texts' = x_label_texts
                ELSE /\ last'.value.bar_names = [i \in 1..n |-> DefaultBarNames[i]]
                     /\ x_label_texts' = [i \in 1..n |-> DefaultBarNames[i]]]_vars

\* A measurement returned the first of two stored names for the one bar left.
C17_Witness ==
    /\ last.op = "handle_calculate_heights"
    /\ last.result = "200"
    /\ Len(buckets["bar"]) = 1
    /\ x_label_texts = <<"P", "P">>
    /\ last.value.bar_names = <<"P">>

(***************************************************************************)
(* C18: update_bar_names(names) returns False and leaves the stored names  *)
(* as they are whenever len(names) differs from the number of bars; it     *)
(* returns True and stores names when the two are equal.                   *)
(***************************************************************************)
C18_BarNamesLengthChecked ==
    [][\A names \in NameLists :
            update_bar_names(names) =>
                IF Len(names) = Len(buckets["bar"])
                THEN last'.result = "True" /\ x_label_texts' = names
                ELSE last'.result = "False" /\ x_label_texts' = x_label_texts]_vars

\* Two names were stored for two bars.
C18_Witness ==
    /\ last.op = "update_bar_names"
    /\ last.result = "True"
    /\ Len(buckets["bar"]) = 2
    /\ x_label_texts = <<"P", "P">>

(***************************************************************************)
(* C19: when the registry holds no label entity, the result of             *)
(* calculate_heights is keyed by the empty string.                         *)
(***************************************************************************)
C19_KeyedByCurrentLabel ==
    [][(Measured /\ buckets["label"] = <<>>) => last'.value.key = ""]_vars

(***************************************************************************)
(* C20: an accepted update_values stores the values of the request and     *)
(* leaves no conversion error set; until the next ingestion no other call  *)
(* changes the values or sets an error, and every measurement is computed  *)
(* from them, whatever the origin and ymax entities.                       *)
(***************************************************************************)
C20_OverrideTakesPrecedence ==
    [][/\ Returned("handle_update_values", "200") =>
                /\ origin_value' = last'.value["origin_value"]
                /\ ymax_value' = last'.value["ymax_value"]
                /\ origin_conversion_error' = <<>>
                /\ ymax_conversion_error' = <<>>
       /\ (last'.op # "detect_box" /\ ~Returned("handle_update_values", "200")) => UNCHANGED calibration
       /\ Measured =>
                /\ CanFloat(origin_value) /\ CanFloat(ymax_value)
                /\ last'.value.bar_heights = bar_heights(Float(origin_value), Float(ymax_value))
                /\ last'.value.uptail_heights = uptail_heights(Float(origin_value), Float(ymax_value))]_vars

\* The edit calls of the registry leave the calibration values and errors alone.
C20_EditsKeepCalibration == [][last'.op \in EditOps => UNCHANGED calibration]_vars

\* A chart with origin and ymax entities was measured with the overriding
\* numbers 0 and 100.
C20_Witness ==
    /\ last.op = "handle_calculate_heights"
    /\ last.result = "200"
    /\ buckets["origin"] # <<>>
    /\ buckets["ymax"] # <<>>
    /\ origin_value = Num("0")
    /\ ymax_value = Num("100")
    /\ Len(last.value.bar_heights) = 2
    /\ last.value.bar_heights[1] = [n |-> 50, d |-> 1]

(***************************************************************************)
(* C21: ingestion and calculate are atomic with respect to each other      *)
(* under concurrent requests: a measurement is computed on a state between *)
(* whole operations, never while a request is inside detect_box.           *)
(***************************************************************************)
C21_MeasuredBetweenOperations == [][Measured => pc = "idle"]_vars

(***************************************************************************)
(* C22: an ingestion whose OCR call raises ends with an error and leaves   *)
(* the registry, the calibration and the texts of the previous ingestion   *)
(* as they were, never the new boxes with the previous calibration.        *)
(***************************************************************************)
C22_FailedIngestionKeepsState ==
    [][(image = "loaded" /\ Returned("handle_bar_analyzer", "500")) =>
            UNCHANGED <<registry, calibration, texts>>]_vars

(***************************************************************************)
(* C23: remove_box on a known id returns True and removes exactly that one *)
(* entity from its dictionary and from the detections, every other entity  *)
(* staying in both; on an unknown id it returns False.                     *)
(***************************************************************************)
C23_RemoveBoxRemovesOne ==
    [][\A box_id \in BoxIds : remove_box(box_id) =>
            IF get_box_by_id(box_id) = NoRef
            THEN last'.result = "False" /\ UNCHANGED registry
            ELSE /\ last'.result = "True"
                 /\ buckets' = [c \in CategorySet |->
                        IF c = Categories[FindCategory(box_id)]
                        THEN SelectSeq(buckets[c], LAMBDA e : e.key # box_id)
                        ELSE buckets[c]]
                 /\ detections' = SelectSeq(detections, LAMBDA r : r # get_box_by_id(box_id))
                 /\ \A r \in DOMAIN heap' : heap'[r] = heap[r]]_vars

(***************************************************************************)
(* C24: add_new_box returns None and inserts nothing into any dictionary   *)
(* or into the detections when one of x1, y1, x2, y2, label is missing or  *)
(* the label is not one of the ten categories; otherwise it returns        *)
(* "<label>_<count + 1>", count being the size of that dictionary at the   *)
(* call.                                                                   *)
(***************************************************************************)
C24_AddNewBoxResult ==
    [][\A box_data \in AddInputs : add_new_box(box_data) =>
            IF ~(RequiredFields \subseteq DOMAIN box_data) \/ box_data["label"] \notin CategorySet
            THEN last'.result = "None" /\ UNCHANGED registry
            ELSE /\ last'.result = "id"
                 /\ last'.id = MkId(box_data["label"], Len(buckets[box_data["label"]]) + 1)]_vars

\* A third bar was added to a chart with two bars and got the id bar_3.
C24_Witness ==
    /\ last.op = "add_new_box"
    /\ last.result = "id"
    /\ last.id = MkId("bar", 3)
    /\ Len(buckets["bar"]) = 3

(***************************************************************************)
(* C25: get_all_boxes returns a snapshot: a map with the ten category keys *)
(* whose contents are, after an add_new_box, remove_box,                   *)
(* change_box_category or update_box_coordinates that follows the call,    *)
(* what they were at the call.                                             *)
(***************************************************************************)
C25_GetAllBoxesIsSnapshot ==
    [][(/\ last.op = "get_all_boxes"
        /\ last'.op \in {"add_new_box", "remove_box", "change_box_category", "update_box_coordinates"}) =>
            /\ Cardinality({last.value[i].name : i \in 1..Len(last.value)}) = 10
            /\ Contents(get_all_boxes)' = last.value]_vars

(***************************************************************************)
(* C26: when origin_value or ymax_value does not parse as a number, the    *)
(* measurement fails with an error that names the field that failed and    *)
(* carries its text, returns no result and changes no state.               *)
(***************************************************************************)
C26_CalibrationErrorNamesField ==
    [][(/\ last'.op = "handle_calculate_heights"
        /\ image = "loaded" /\ ~detections_is_none /\ detections # <<>>
        /\ ~CanFloat(origin_value) \/ ~CanFloat(ymax_value)) =>
            /\ last'.result = "400"
            /\ DOMAIN last'.value = {"error"}
            /\ UNCHANGED <<registry, image, calibration, texts>>
            /\ IF ~CanFloat(origin_value)
               THEN {"origin_value", origin_value.s} \subseteq Range(last'.value.error)
               ELSE {"ymax_value", ymax_value.s} \subseteq Range(last'.value.error)]_vars

\* The parts of C26 the code meets: the request is answered 400 with an error
\* that carries the text of the first value float() rejects, no result, and
\* no state changes.
C26_CalibrationErrorCarriesText ==
    [][(/\ last'.op = "handle_calculate_heights"
        /\ image = "loaded" /\ ~detections_is_none /\ detections # <<>>
        /\ ~CanFloat(origin_value) \/ ~CanFloat(ymax_value)) =>
            /\ last'.result = "400"
            /\ DOMAIN last'.value = {"error"}
            /\ UNCHANGED <<registry, image, calibration, texts>>
            /\ (IF ~CanFloat(origin_value) THEN origin_value.s ELSE ymax_value.s) \in Range(last'.value.error)]_vars

(***************************************************************************)
(* C27: readiness is sufficient for the measurement: in every state where  *)
(* get_component_status reports all_components_ready, the measurement      *)
(* returns a result, also when an origin or ymax entity is present and its *)
(* OCR text is empty.                                                      *)
(***************************************************************************)
C27_ReadyIsMeasurable ==
    [][(/\ last'.op = "handle_calculate_heights"
        /\ get_component_status.raised = ""
        /\ get_component_status.all_components_ready) => last'.result = "200"]_vars

(***************************************************************************)
(* C28: after any sequence of detect_box, add_new_box, remove_box and      *)
(* change_box_category, the detections and the dictionaries describe the   *)
(* same entities: every entity stored in a dictionary occurs exactly once  *)
(* in the detections, and every detection with one of the ten labels is    *)
(* stored in exactly one dictionary.                                       *)
(***************************************************************************)
\* The places (dictionary and position) where the entity r is stored.
Places(r) == UNION {{<<c, i>> : i \in {j \in 1..Len(buckets[c]) : buckets[c][j].ref = r}} : c \in CategorySet}

Occurrences(r) == Cardinality({i \in 1..Len(detections) : detections[i] = r})

C28_DetectionsMatchRegistry ==
    /\ \A r \in Stored : Occurrences(r) = 1
    /\ \A r \in Range(detections) : heap[r].label \in CategorySet => Cardinality(Places(r)) = 1

(***************************************************************************)
(* C29: a successful update_box_coordinates changes only the four          *)
(* coordinates of the entity with that id: the keys and the order of every *)
(* dictionary, every other entity, the bar names and the calibration       *)
(* values are unchanged, also when the new x1 changes the left-to-right    *)
(* order.                                                                  *)
(***************************************************************************)
C29_UpdateChangesCoordinatesOnly ==
    [][Returned("update_box_coordinates", "True") =>
            LET ref == get_box_by_id(last'.id)
            IN  /\ ref # NoRef
                /\ buckets' = buckets
                /\ detections' = detections
                /\ UNCHANGED <<calibration, texts, image>>
                /\ DOMAIN heap' = DOMAIN heap
                /\ \A r \in (DOMAIN heap) \ {ref} : heap'[r] = heap[r]
                /\ heap'[ref] = [heap[ref] EXCEPT !.x1 = last'.box.x1, !.y1 = last'.box.y1,
                                                  !.x2 = last'.box.x2, !.y2 = last'.box.y2]]_vars

\* After two updates bar_1 lies to the right of bar_2 and the keys are in
\* their first order.
C29_Witness ==
    /\ last.op = "update_box_coordinates"
    /\ last.result = "True"
    /\ Len(buckets["bar"]) = 2
    /\ buckets["bar"][1].key = MkId("bar", 1)
    /\ buckets["bar"][2].key = MkId("bar", 2)
    /\ heap[buckets["bar"][1].ref].x1 > heap[buckets["bar"][2].ref].x1

(***************************************************************************)
(* C30: change_box_category(id, c) where c is already the category of the  *)
(* entity is a no-op: the dictionary keeps its order (and with it the      *)
(* order of the heights the next measurement returns) and no entity        *)
(* changes.                                                                *)
(***************************************************************************)
C30_SameCategoryIsNoOp ==
    [][(/\ Returned("change_box_category", "True")
        /\ get_box_by_id(last'.id) # NoRef
        /\ Categories[FindCategory(last'.id)] = last'.cat) =>
            buckets' = buckets /\ heap' = heap /\ detections' = detections]_vars

(***************************************************************************)
(* C31: the measurement is a recomputation from the current state: it      *)
(* changes no dictionary, no entity, no detection and no calibration       *)
(* value, and of two successful measurements that follow one another the   *)
(* second returns what the first returned.                                 *)
(***************************************************************************)
C31_MeasurementRecomputes ==
    [][last'.op = "handle_calculate_heights" =>
            /\ UNCHANGED <<registry, image, calibration, label_text>>
            /\ (last.op = "handle_calculate_heights" /\ last.result = "200") =>
                    (last'.result = "200" /\ last'.value = last.value)]_vars

\* Two measurements followed an ingestion that read 10 for ymax and fewer
\* names than bars: the first one stored the generated names, the second one
\* returned them.
C31_Witness ==
    /\ last.op = "handle_calculate_heights"
    /\ last.result = "200"
    /\ nops = 2
    /\ ymax_value = Str("10")
    /\ Len(buckets["x_group"]) = 1
    /\ x_label_texts = <<"Bar 1", "Bar 2">>
    /\ last.value.bar_names = <<"Bar 1", "Bar 2">>

(***************************************************************************)
(* C32: after update_bar_names(names) has succeeded, the next measurement  *)
(* returns bar_names equal to names, provided no bar was added, removed or *)
(* recategorized in between: the call stores names, one per bar; the       *)
(* requests that are neither an ingestion, an update of the names nor a    *)
(* measurement leave the stored names alone; and a measurement that finds  *)
(* one stored name per bar returns the stored names and keeps them.        *)
(***************************************************************************)
C32_NamesReturnedAfterUpdate ==
    [][/\ \A names \in NameLists : (update_bar_names(names) /\ last'.result = "True") =>
                /\ x_label_texts' = names
                /\ Len(names) = Len(buckets'["bar"])
       /\ last'.op \notin {"detect_box", "update_bar_names", "handle_calculate_heights"} =>
                x_label_texts' = x_label_texts
       /\ (Measured /\ Len(x_label_texts) = Len(buckets["bar"])) =>
                /\ last'.value.bar_names = x_label_texts
                /\ x_label_texts' = x_label_texts]_vars

\* A measurement returned the two names given for the two bars.
C32_Witness ==
    /\ last.op = "handle_calculate_heights"
    /\ last.result = "200"
    /\ Len(buckets["bar"]) = 2
    /\ x_label_texts = <<"P", "P">>
    /\ last.value.bar_names = <<"P", "P">>

(***************************************************************************)
(* C33: two add_new_box requests for the same category that run at the     *)
(* same time receive distinct ids, and both boxes are stored afterwards,   *)
(* under every interleaving of their steps.                                *)
(***************************************************************************)
C33_ConcurrentAddsGetDistinctIds ==
    \A t, u \in Threads :
        (/\ t # u
         /\ locals[t].at = "returned"
         /\ locals[u].at = "returned"
         /\ locals[t].label = locals[u].label) =>
            /\ locals[t].new_id # locals[u].new_id
            /\ locals[t].ref \in StoredIn(locals[t].label)
            /\ locals[u].ref \in StoredIn(locals[u].label)

(***************************************************************************)
(* C34: the measurement never divides by zero: whenever it reaches the     *)
(* computation of the scale (both calibration values convert and there is  *)
(* a y axis), the first yaxis entity has y1 # y2.                          *)
(***************************************************************************)
C34_ScaleIsDefined ==
    [][(/\ last'.op = "handle_calculate_heights"
        /\ image = "loaded" /\ ~detections_is_none /\ detections # <<>>
        /\ CanFloat(origin_value) /\ CanFloat(ymax_value)
        /\ buckets["yaxis"] # <<>>) =>
            /\ yaxis_obj.y1 # yaxis_obj.y2
            /\ last'.result = "200"]_vars

(***************************************************************************)
(* C35: a measurement request is answered with a result only after a       *)
(* successful ingestion.                                                   *)
(***************************************************************************)
C35_ResultOnlyAfterIngestion == [][Measured => ingested]_vars

\* The part of C35 about the checks of the handler: the request is answered
\* 400 without results, and nothing changes, whenever no image has been read
\* or the detections are None or empty.
C35_NoImageOrDetectionsRejected ==
    [][(/\ last'.op = "handle_calculate_heights"
        /\ image = "None" \/ detections_is_none \/ detections = <<>>) =>
            /\ last'.result = "400"
            /\ last'.value = <<>>
            /\ UNCHANGED <<registry, image, calibration, texts>>]_vars

(***************************************************************************)
(* C36: in every reachable state each entity stored in a dictionary has    *)
(* its 'id' equal to the key it is stored under and its 'label' equal to   *)
(* the category of that dictionary.                                        *)
(***************************************************************************)
C36_EntityMatchesItsKey ==
    \A c \in CategorySet : \A i \in 1..Len(buckets[c]) :
        /\ heap[buckets[c][i].ref].id = buckets[c][i].key
        /\ heap[buckets[c][i].ref].label = c

(***************************************************************************)
(* C37: in every result of the measurement, bar_heights and bar_names have *)
(* as many elements as there are bars and uptail_heights as many as there  *)
(* are uptails, and the i-th height is that of the i-th entity of the      *)
(* dictionary.                                                             *)
(***************************************************************************)
C37_ResultsFollowTheDictionaries ==
    [][Measured =>
            /\ Len(last'.value.bar_heights) = Len(buckets["bar"])
            /\ Len(last'.value.bar_names) = Len(buckets["bar"])
            /\ Len(last'.value.uptail_heights) = Len(buckets["uptail"])
            /\ \A i \in 1..Len(buckets["bar"]) :
                    last'.value.bar_heights[i] =
                        bar_height(buckets["bar"][i].ref, Float(origin_value), Float(ymax_value))
            /\ \A i \in 1..Len(buckets["uptail"]) :
                    last'.value.uptail_heights[i] =
                        uptail_height(buckets["uptail"][i].ref, Float(origin_value), Float(ymax_value))]_vars

\* Two bars of 100 px and 50 px and one uptail were measured on an axis of
\* 200 px at origin 0 and ymax 100: 50 and 25 in the order of the bars.
C37_Witness ==
    /\ last.op = "handle_calculate_heights"
    /\ last.result = "200"
    /\ Len(buckets["bar"]) = 2
    /\ Len(buckets["uptail"]) = 1
    /\ heap[buckets["bar"][1].ref].y2 - heap[buckets["bar"][1].ref].y1 = 100
    /\ heap[buckets["bar"][2].ref].y2 - heap[buckets["bar"][2].ref].y1 = 50
    /\ last.value.bar_heights = <<[n |-> 50, d |-> 1], [n |-> 25, d |-> 1]>>
    /\ Len(last.value.uptail_heights) = 1
    /\ Len(last.value.bar_names) = 2

====
